---- MODULE Spec2Model ----
(***************************************************************************)
(* shld.py: expands the 'source' and '.' commands of a shell script into   *)
(* the text of the sourced files, recursively.                             *)
(*                                                                         *)
(* A line is a sequence of one-character strings, as readline() returns    *)
(* it: with its trailing "\n" when the file has one there.  A path string  *)
(* is a sequence of characters too; a directory or a file of the file      *)
(* system is named by the sequence of its component names from the root.   *)
(***************************************************************************)
EXTENDS Integers, Sequences, FiniteSets, TLC

(***************************************************************************)
(* Characters and the patterns of shld.py                                  *)
(***************************************************************************)

\* \s of the re module, over the characters the scripts use
IsSpace(c) == c \in {" ", "\t", "\n"}

UpperCase == <<"A","B","C","D","E","F","G","H","I","J","K","L","M",
               "N","O","P","Q","R","S","T","U","V","W","X","Y","Z">>
LowerCase == <<"a","b","c","d","e","f","g","h","i","j","k","l","m",
               "n","o","p","q","r","s","t","u","v","w","x","y","z">>

\* re.IGNORECASE compares the lower-cased characters
Lower(c) ==
    IF \E i \in 1..Len(UpperCase) : UpperCase[i] = c
    THEN LowerCase[CHOOSE i \in 1..Len(UpperCase) : UpperCase[i] = c]
    ELSE c

\* the number of whitespace characters a greedy \s* takes from position i on
RECURSIVE SpaceRun(_, _)
SpaceRun(s, i) ==
    IF i <= Len(s) /\ IsSpace(s[i]) THEN 1 + SpaceRun(s, i + 1) ELSE 0

\* the literal lit stands in s at position i
LitAt(s, i, lit) ==
    /\ i + Len(lit) - 1 <= Len(s)
    /\ \A k \in 1..Len(lit) : s[i + k - 1] = lit[k]

\* the same, under re.IGNORECASE
LitAtIgnoreCase(s, i, lit) ==
    /\ i + Len(lit) - 1 <= Len(s)
    /\ \A k \in 1..Len(lit) : Lower(s[i + k - 1]) = Lower(lit[k])

ShldIgnoreWord == <<"#","s","h","l","d","i","g","n","o","r","e">>
SourceWord == <<"s","o","u","r","c","e">>

\* SHLDIGNORE_COMMENT_PATTERN.match(line): ^\s*#shldignore, case-insensitive
SHLDIGNORE_COMMENT_PATTERN(line) ==
    LitAtIgnoreCase(line, 1 + SpaceRun(line, 1), ShldIgnoreWord)

\* SOURCE_CMD_PATTERN.match(line): ^\s*(?:source|\.)\s+\.*
\* the keyword, then one whitespace character at least; the final \.* takes
\* any number of dots, none included
SOURCE_CMD_PATTERN(line) ==
    LET b == 1 + SpaceRun(line, 1)
        after(k) == b + k <= Len(line) /\ IsSpace(line[b + k])
    IN  \/ LitAt(line, b, SourceWord) /\ after(Len(SourceWord))
        \/ LitAt(line, b, <<".">>) /\ after(1)

SUPPORTED_SHELLS ==
    { <<"s","h">>, <<"b","a","s","h">>, <<"d","a","s","h">>, <<"k","s","h">> }

\* the length of s without its trailing whitespace
RECURSIVE StripEnd(_, _)
StripEnd(s, n) ==
    IF n >= 1 /\ IsSpace(s[n]) THEN StripEnd(s, n - 1) ELSE n

\* the first position of the run of characters other than "/" and whitespace
\* that ends at position n (n + 1 when the run is empty)
RECURSIVE NameStart(_, _)
NameStart(s, n) ==
    IF n >= 1 /\ s[n] # "/" /\ ~IsSpace(s[n]) THEN NameStart(s, n - 1) ELSE n + 1

NoMatch == <<"NoMatch">>

\* re.search(ur'.*?([^/\s]+)\s*$', line).group(1): the lazy .*? stops at the
\* first position from which only name characters and then whitespace follow,
\* so group 1 is the whole last run of name characters; NoMatch (search
\* returns None) when no name character ends the line
DetectShell(line) ==
    LET e == StripEnd(line, Len(line))
        b == NameStart(line, e)
    IN  IF b > e THEN NoMatch ELSE SubSeq(line, b, e)

(***************************************************************************)
(* shlex.split, os.path.dirname and the file system's path lookup          *)
(***************************************************************************)

\* the first position at or after i that holds whitespace (Len(s) + 1 if none)
RECURSIVE WordEnd(_, _)
WordEnd(s, i) ==
    IF i <= Len(s) /\ ~IsSpace(s[i]) THEN WordEnd(s, i + 1) ELSE i

\* shlex.split(line) for a line without quotes, backslashes: its words
RECURSIVE ShlexSplit(_, _)
ShlexSplit(s, i) ==
    LET b == i + SpaceRun(s, i)
        e == WordEnd(s, b)
    IN  IF b > Len(s) THEN <<>>
        ELSE <<SubSeq(s, b, e - 1)>> \o ShlexSplit(s, e)

\* the last position of a "/" in p[1..n], 0 if there is none: p.rfind('/') + 1
RECURSIVE RFindSlash(_, _)
RFindSlash(p, n) ==
    IF n >= 1 /\ p[n] # "/" THEN RFindSlash(p, n - 1) ELSE n

\* the length of p[1..n] without its trailing slashes
RECURSIVE StripSlashes(_, _)
StripSlashes(p, n) ==
    IF n >= 1 /\ p[n] = "/" THEN StripSlashes(p, n - 1) ELSE n

\* os.path.dirname(p): the text before the last "/", without its trailing
\* slashes unless it consists of slashes only
Dirname(p) ==
    LET i == RFindSlash(p, Len(p))
        k == StripSlashes(p, i)
    IN  IF k = 0 THEN SubSeq(p, 1, i) ELSE SubSeq(p, 1, k)

\* the components of a path string, split at its slashes
RECURSIVE NextSlash(_, _)
NextSlash(p, i) ==
    IF i <= Len(p) /\ p[i] # "/" THEN NextSlash(p, i + 1) ELSE i

RECURSIVE Components(_, _)
Components(p, i) ==
    LET e == NextSlash(p, i)
    IN  IF i > Len(p) THEN <<>>
        ELSE IF e = i THEN Components(p, i + 1)
        ELSE <<SubSeq(p, i, e - 1)>> \o Components(p, e + 1)

IsAbs(p) == Len(p) >= 1 /\ p[1] = "/"

(***************************************************************************)
(* The file system the runs start from                                     *)
(***************************************************************************)

dA == <<"a">>
dB == <<"b">>
dC == <<"c">>
dW == <<"w">>

\* the directories: /, /a, /a/b, /a/c, /a/b/c, /c and /w
Dirs ==
    { <<>>, <<dA>>, <<dA, dB>>, <<dA, dC>>, <<dA, dB, dC>>, <<dC>>, <<dW>> }

NoEnt == <<<<"ENOENT">>>>

Parent(d) == IF Len(d) = 0 THEN d ELSE SubSeq(d, 1, Len(d) - 1)

\* the directory the components comps lead to from directory at, a step
\* at a time as the kernel walks them; NoEnt when a step names no directory
RECURSIVE WalkFrom(_, _)
WalkFrom(at, comps) ==
    IF at = NoEnt \/ Len(comps) = 0 THEN at
    ELSE IF Head(comps) = <<".">> THEN WalkFrom(at, Tail(comps))
    ELSE IF Head(comps) = <<".", ".">> THEN WalkFrom(Parent(at), Tail(comps))
    ELSE IF Append(at, Head(comps)) \in Dirs
         THEN WalkFrom(Append(at, Head(comps)), Tail(comps))
    ELSE NoEnt

\* the directory path string p names when the working directory is wd
LookupDir(wd, p) ==
    IF Len(p) = 0 THEN NoEnt
    ELSE WalkFrom(IF IsAbs(p) THEN <<>> ELSE wd, Components(p, 1))

\* the place of the file path string p names when the working directory is wd:
\* the directory its leading components lead to, then its last component;
\* NoEnt when p names no place a regular file can be at
LookupFile(wd, p) ==
    LET comps == Components(p, 1)
        n     == Len(comps)
        dir   == WalkFrom(IF IsAbs(p) THEN <<>> ELSE wd, SubSeq(comps, 1, n - 1))
    IN  IF \/ n = 0
           \/ p[Len(p)] = "/"
           \/ comps[n] \in { <<".">>, <<".", ".">> }
           \/ dir = NoEnt
        THEN NoEnt
        ELSE Append(dir, comps[n])

(***************************************************************************)
(* The exit conditions                                                     *)
(***************************************************************************)

OPEN_FAILED == 1
UNSUPPORTED_SHELL == 2
IMPROPER_USE_OF_SHLDIGNORE == 3
WRONG_NUMBER_ARGS == 4
FILE_EXISTS == 5
FILE_NOT_WRITEABLE == 6
DIRECTORY_DOES_NOT_EXIST == 7
DIRECTORY_NOT_WRITEABLE == 8
\* the status of an interpreter that ends on an uncaught exception
UNCAUGHT == 1

(***************************************************************************)
(* The scripts: the lines a generated file is made of, and the files that  *)
(* its inclusion statements name                                           *)
(***************************************************************************)

\* the longest generated file, in lines after the interpreter line
MaxBody == 2
\* the depth of calls the interpreter allows (sys.getrecursionlimit())
RecursionLimit == 4

LnX        == <<"x", "\n">>
LnIgnore   == <<"#","s","h","l","d","i","g","n","o","r","e","\n">>
LnDotK     == <<".", " ", "k", "\n">>
LnSourceCR == <<"s","o","u","r","c","e"," ","c","/","r","\n">>
LnDotAbsL  == <<".", " ", "/", "l", "\n">>
LnDotQ     == <<".", " ", "q", "\n">>
LnDotS     == <<".", " ", "s", "\n">>
LnSource   == <<"s","o","u","r","c","e","\n">>
LnSourceBN == <<"s","o","u","r","c","e"," ","b","/","n","\n">>
LnRunK     == <<".", "/", "k", "\n">>
LnDotUpK   == <<".", " ", ".", ".", "/", "k", "\n">>
LnDotUpT   == <<".", " ", ".", ".", "/", "t", "\n">>

\* two ordinary lines (the second runs ./k, it includes nothing), the
\* directive, inclusions (of a sibling, of a file in a directory below, of an
\* absolute path, of a missing file, of a file that includes itself) and the
\* keyword without a path
LinePool ==
    { LnX, LnRunK, LnIgnore, LnDotK, LnSourceCR, LnDotAbsL, LnDotQ, LnDotS,
      LnSource }

LnBash      == <<"#","!","/","b","i","n","/","b","a","s","h","\n">>
LnZsh       == <<"#","!","/","b","i","n","/","z","s","h","\n">>
LnBlank     == <<"\n">>
LnIgnoreSh  == <<"#","s","h","l","d","i","g","n","o","r","e"," ","s","h","\n">>

FirstLines == { LnBash, LnZsh, LnBlank, LnIgnoreSh }

RECURSIVE SeqsUpTo(_, _)
SeqsUpTo(S, n) ==
    IF n = 0 THEN { <<>> }
    ELSE LET shorter == SeqsUpTo(S, n - 1)
         IN  shorter \cup { Append(b, l) : b \in shorter, l \in S }

Bodies == SeqsUpTo(LinePool, MaxBody)

\* the bodies of the file /a/b/n: they may include ../t, the top-level
\* script, which includes /a/b/n
NestedBodies == SeqsUpTo(LinePool \cup { LnDotUpT }, MaxBody)

RECURSIVE Flatten(_)
Flatten(ss) == IF Len(ss) = 0 THEN <<>> ELSE Head(ss) \o Flatten(Tail(ss))

\* the one line of the file k of directory d names the directory: "kab\n"
KLine(d) == <<"k">> \o Flatten(d) \o <<"\n">>
RLine(d) == <<"r">> \o Flatten(d) \o <<"\n">>

fK == <<"k">>
fS == <<"s">>
fR == <<"r">>
fL == <<"l">>
fT == <<"t">>
fN == <<"n">>
fO == <<"o">>

\* the files an inclusion statement of LinePool can name from directory d:
\* d/k, d/s (which includes itself) and d/c/r, which includes d/k as ../k
\* between two lines of its own, the last without a newline; and d/c/k, which
\* nothing includes
FixtureAt(d) ==
    LET dc == Append(d, dC)
    IN  (Append(d, fK)  :> << KLine(d) >>) @@
        (Append(d, fS)  :> << LnDotS >>) @@
        (Append(dc, fR) :> << RLine(dc), LnDotUpK, <<"r">> >>) @@
        (Append(dc, fK) :> << KLine(dc) >>)

\* and /l, whose first line is the interpreter line of a shell that is not
\* supported, and which includes /k
Fixture ==
    FixtureAt(<<>>) @@ FixtureAt(<<dA>>) @@ FixtureAt(<<dA, dB>>) @@
    (<<fL>> :> << LnZsh, LnDotK >>)

NoFile == <<<<"NoFile">>>>

\* the top-level script: missing, empty, or an interpreter line and a body
TopFiles(bodies) ==
    { NoFile, <<>> } \cup { <<f>> \o b : f \in FirstLines, b \in bodies }

pathAT == <<"a", "/", "t">>
pathT  == <<"t">>
TopPlace == <<dA, fT>>
NPlace   == <<dA, dB, fN>>

WithFile(place, content) ==
    IF content = NoFile THEN <<>> ELSE (place :> content)

\* the top-level script /a/t, named `script` from the directory cwd0
TopInput(cwd0, script, t) ==
    [cwd0 |-> cwd0, script |-> script,
     files |-> WithFile(TopPlace, t) @@ Fixture]

\* where the generated file stands: it is the top-level script /a/t, named
\* "a/t" from / or "t" from /a, or it is /a/b/n, which the top-level script
\* /a/t includes before a line of its own and which may include it back
Inputs ==
    { TopInput(<<>>, pathAT, t) : t \in TopFiles(Bodies) }
    \cup
    { TopInput(<<dA>>, pathT, t) : t \in TopFiles(Bodies) }
    \cup
    { [cwd0 |-> <<>>, script |-> pathAT,
       files |-> (TopPlace :> <<LnBash, LnSourceBN, LnX>>) @@ (NPlace :> b)
                 @@ Fixture] : b \in NestedBodies }

\* a script that includes nothing, named "a/t" from / or "t" from /a
PlainInputs ==
    { TopInput(<<>>, pathAT, <<LnBash, LnX, LnRunK>>),
      TopInput(<<dA>>, pathT, <<LnBash, LnX, LnRunK>>) }

\* the scripts every command line is run with: the two of PlainInputs, and
\* the name "a/t" of no file
PreflightInputs ==
    PlainInputs \cup { TopInput(<<>>, pathAT, NoFile) }

pathO  == <<"o">>
pathWO == <<"/", "w", "/", "o">>
pathZO == <<"/", "z", "/", "o">>
pathExtra == <<"e">>

OldContent == << <<"o", "l", "d", "\n">> >>

\* the rest of the command line and the state of the output path: the file
\* names after the script's (none: the output goes to stdout), or no file name
\* at all; -f; whether the output file exists and is writeable; whether its
\* directory is writeable
Worlds ==
    { w \in [ noargs : BOOLEAN, outs : { <<>>, <<pathO>>, <<pathWO>>, <<pathZO>>,
                                           <<pathWO, pathExtra>> },
              force : BOOLEAN, destOld : BOOLEAN, destWritable : BOOLEAN,
              dirWritable : BOOLEAN ] :
        /\ w.noargs => (w.outs = <<>> /\ ~w.force)
        /\ Len(w.outs) # 1 => (~w.destOld /\ ~w.force)
        /\ w.outs = <<pathZO>> => ~w.destOld
        /\ ~w.destOld => w.destWritable
        /\ (w.destOld \/ Len(w.outs) # 1 \/ w.outs # <<pathWO>>) => w.dirWritable }

\* the command lines every script of Inputs is run with: the output goes to
\* stdout, to a new file /w/o, or over the file o of the working directory
RunWorlds ==
    { w \in Worlds :
        /\ ~w.noargs
        /\ w.destWritable /\ w.dirWritable
        /\ \/ w.outs = <<>> /\ ~w.force
           \/ w.outs = <<pathWO>> /\ ~w.force /\ ~w.destOld
           \/ w.outs = <<pathO>> /\ w.force /\ w.destOld }

(***************************************************************************)
(* The state of a run                                                      *)
(***************************************************************************)

VARIABLES
    fs,       \* the scripts: place |-> lines
    ofs,      \* the files at output paths: place |-> lines
    env,      \* [cwd0, ofs0, destWritable, dirWritable]: the working directory
              \* and the files at output paths the process starts with, and
              \* what os.access(.., W_OK) answers
    args,     \* [filenames, force]: the parsed command line
    cwd,      \* the working directory of the process
    pc,       \* "start", "expand", "finish", "done" or "exit"
    stack,    \* the active calls of process_file, the innermost last; of each,
              \* its arguments, its locals, where it stands ("open",
              \* "prologue", "scan"), the open file's place, the lines read
              \* from it (pos) and the length of the output when it was
              \* called (mark)
    out,      \* the lines written to output_fd
    tmp,      \* the temporary file: "none", "open", "renamed" or "removed"
    code,     \* the exit status
    exc,      \* the uncaught exception the run ended on, "" if none
    report,   \* what the error message names
    opened    \* every open() of a script: the name given, the place it led
              \* to, the depth, and the file and line of the statement (by, at)

vars == <<fs, ofs, env, args, cwd, pc, stack, out, tmp, code, exc,
          report, opened>>

None == <<<<"None">>>>

OutputFiles(in, w) ==
    IF w.destOld THEN (LookupFile(in.cwd0, w.outs[1]) :> OldContent) ELSE <<>>

\* every script with the command lines of RunWorlds, and every command line
\* and state of the output path with a script that includes nothing or is
\* missing
Starts ==
    (Inputs \X RunWorlds) \cup (PreflightInputs \X Worlds)

Init ==
    \E st \in Starts :
      LET in == st[1]
          w  == st[2]
      IN
        /\ fs = in.files
        /\ ofs = OutputFiles(in, w)
        /\ env = [cwd0 |-> in.cwd0, ofs0 |-> OutputFiles(in, w),
                  destWritable |-> w.destWritable,
                  dirWritable |-> w.dirWritable]
        /\ args = [filenames |-> IF w.noargs THEN <<>>
                                 ELSE <<in.script>> \o w.outs,
                   force |-> w.force]
        /\ cwd = in.cwd0
        /\ pc = "start"
        /\ stack = <<>>
        /\ out = <<>>
        /\ tmp = "none"
        /\ code = 0
        /\ exc = ""
        /\ report = <<>>
        /\ opened = <<>>

(***************************************************************************)
(* Leaving the interpreter                                                 *)
(***************************************************************************)

\* an exit without the handler
cleanupNot(t) == t

\* cleanup(), registered with atexit: closes the temporary file and removes
\* it; os.remove raises OSError, which is passed over, when the file has
\* been renamed away
cleanup(t) == IF t = "open" THEN "removed" ELSE t

\* exit(status), or an uncaught exception e: the interpreter runs the atexit
\* handlers and ends; nothing else of the program runs
Terminate(status, e, msg) ==
    /\ pc' = "exit"
    /\ code' = status
    /\ exc' = e
    /\ report' = msg
    /\ tmp' = cleanup(tmp)

(***************************************************************************)
(* The script's top level, before the call of process_file                 *)
(***************************************************************************)

\* checks that look at the file's permission before they look at -f
PreflightStatusWritableFirst(filenames, force, wd, files, acc) ==
    LET num_filenames == Len(filenames)
        output_filename == filenames[2]
        output_dir == Dirname(output_filename)
    IN  IF num_filenames < 1 \/ num_filenames > 2 THEN WRONG_NUMBER_ARGS
        ELSE IF num_filenames # 2 THEN 0
        ELSE IF LookupFile(wd, output_filename) \in DOMAIN files
        THEN IF ~acc.destWritable THEN FILE_NOT_WRITEABLE
             ELSE IF ~force THEN FILE_EXISTS
             ELSE 0
        ELSE IF LookupDir(wd, output_dir) = NoEnt THEN DIRECTORY_DOES_NOT_EXIST
             ELSE IF ~acc.dirWritable THEN DIRECTORY_NOT_WRITEABLE
             ELSE 0

\* the exit status of the checks of the command line and of the output path,
\* 0 when they pass
PreflightStatus(filenames, force, wd, files, acc) ==
    LET num_filenames == Len(filenames)
        output_filename == filenames[2]
        output_dir == Dirname(output_filename)
    IN  IF num_filenames < 1 \/ num_filenames > 2 THEN WRONG_NUMBER_ARGS
        ELSE IF num_filenames # 2 THEN 0
        ELSE IF LookupFile(wd, output_filename) \in DOMAIN files
        THEN IF ~force THEN FILE_EXISTS
             ELSE IF ~acc.destWritable THEN FILE_NOT_WRITEABLE
             ELSE 0
        ELSE IF LookupDir(wd, output_dir) = NoEnt THEN DIRECTORY_DOES_NOT_EXIST
             ELSE IF ~acc.dirWritable THEN DIRECTORY_NOT_WRITEABLE
             ELSE 0

\* a call process_file(input_filename, output_fd, depth), about to open;
\* mark and entered keep the length of the output and the working directory
\* at the call
Call(input_filename, depth) ==
    [ name |-> input_filename, depth |-> depth, pc |-> "open", file |-> None,
      pos |-> 0, line_number |-> 0, saved_cwd |-> None, mark |-> Len(out),
      entered |-> cwd ]

Preflight ==
    /\ pc = "start"
    /\ LET status == PreflightStatus(args.filenames, args.force, cwd, ofs, env)
       IN  IF status # 0
           THEN /\ Terminate(status, "", <<>>)
                /\ UNCHANGED stack
           ELSE /\ pc' = "expand"
                /\ tmp' = IF Len(args.filenames) = 2 THEN "open" ELSE tmp
                /\ stack' = << Call(args.filenames[1], 0) >>
                /\ UNCHANGED <<code, exc, report>>
    /\ UNCHANGED <<fs, ofs, env, args, cwd, out, opened>>

(***************************************************************************)
(* process_file                                                            *)
(***************************************************************************)

Top == stack[Len(stack)]
SetTop(f) == [stack EXCEPT ![Len(stack)] = f]

Running(at) == pc = "expand" /\ Len(stack) > 0 /\ Top.pc = at

\* the file and the line of the statement which made the innermost call
Includer == IF Len(stack) > 1 THEN stack[Len(stack) - 1].file ELSE None
IncluderLine == IF Len(stack) > 1 THEN stack[Len(stack) - 1].pos ELSE 0

\* an open whose failure, in a call made for an inclusion, is passed over:
\* the call returns and the caller scans on
OpenFileSkipsMissing ==
    /\ Running("open")
    /\ LET place == LookupFile(cwd, Top.name)
       IN  /\ opened' = Append(opened, [name |-> Top.name, place |-> place,
                                        by |-> Includer, at |-> IncluderLine,
                                        depth |-> Top.depth])
           /\ IF place \in DOMAIN fs
              THEN /\ stack' = SetTop([Top EXCEPT !.file = place,
                                                  !.pc = "prologue"])
                   /\ UNCHANGED <<pc, code, exc, report, tmp>>
              ELSE IF Top.depth > 0
              THEN /\ stack' = [SubSeq(stack, 1, Len(stack) - 1)
                                  EXCEPT ![Len(stack) - 1].line_number = @ + 1]
                   /\ UNCHANGED <<pc, code, exc, report, tmp>>
              ELSE /\ Terminate(OPEN_FAILED, "", <<Top.name>>)
                   /\ UNCHANGED stack
    /\ UNCHANGED <<fs, ofs, env, args, cwd, out>>

\* open(input_filename, mode='r'); IOError ends the run with OPEN_FAILED
OpenFile ==
    /\ Running("open")
    /\ LET place == LookupFile(cwd, Top.name)
       IN  /\ opened' = Append(opened, [name |-> Top.name, place |-> place,
                                        by |-> Includer, at |-> IncluderLine,
                                        depth |-> Top.depth])
           /\ IF place \in DOMAIN fs
              THEN /\ stack' = SetTop([Top EXCEPT !.file = place,
                                                  !.pc = "prologue"])
                   /\ UNCHANGED <<pc, code, exc, report, tmp>>
              ELSE /\ Terminate(OPEN_FAILED, "", <<Top.name>>)
                   /\ UNCHANGED stack
    /\ UNCHANGED <<fs, ofs, env, args, cwd, out>>

\* input_fd.readline() with `read` lines read so far: the next line, or the
\* empty string at the end of the file
ReadLine(place, read) ==
    IF read < Len(fs[place]) THEN fs[place][read + 1] ELSE <<>>

\* a pushd that is left out
PushdSkipped(wd, input_filename) == wd

\* a pushd for relative names only
PushdRelativeOnly(wd, input_filename) ==
    IF Len(Dirname(input_filename)) > 0 /\ ~IsAbs(input_filename)
    THEN LookupDir(wd, Dirname(input_filename))
    ELSE wd

\* the conditional pushd: the working directory while the file is scanned
Pushd(wd, input_filename) ==
    IF Len(Dirname(input_filename)) > 0
    THEN LookupDir(wd, Dirname(input_filename))
    ELSE wd

\* a saved_cwd taken after the chdir
SavedCwdAfterChdir(wd, input_filename) ==
    IF Len(Dirname(input_filename)) > 0
    THEN LookupDir(wd, Dirname(input_filename))
    ELSE None

\* saved_cwd: what the popd restores
SavedCwd(wd, input_filename) ==
    IF Len(Dirname(input_filename)) > 0 THEN wd ELSE None

\* a popd that is left out
PopdForgotten(wd, saved_cwd) == wd

\* the popd: the working directory after the file is scanned
Popd(wd, saved_cwd) == IF saved_cwd # None THEN saved_cwd ELSE wd

\* a call that reads, checks and writes the first line at every depth
PrologueEveryDepth ==
    /\ Running("prologue")
    /\ LET line  == ReadLine(Top.file, 0)
           shell == DetectShell(line)
           dir   == Pushd(cwd, Top.name)
       IN  IF shell = NoMatch
           THEN /\ Terminate(UNCAUGHT, "AttributeError", <<>>)
                /\ UNCHANGED <<stack, out, cwd>>
           ELSE IF shell \notin SUPPORTED_SHELLS
           THEN /\ Terminate(UNSUPPORTED_SHELL, "", <<shell>>)
                /\ UNCHANGED <<stack, out, cwd>>
           ELSE IF dir = NoEnt
           THEN /\ Terminate(UNCAUGHT, "OSError", <<>>)
                /\ out' = Append(out, line)
                /\ UNCHANGED <<stack, cwd>>
           ELSE /\ out' = Append(out, line)
                /\ cwd' = dir
                /\ stack' = SetTop([Top EXCEPT
                                !.pos = 1,
                                !.line_number = 1,
                                !.saved_cwd = SavedCwd(cwd, Top.name),
                                !.pc = "scan"])
                /\ UNCHANGED <<pc, code, exc, report, tmp>>
    /\ UNCHANGED <<fs, ofs, env, args, opened>>

\* at depth 0 the interpreter line is read, checked and written; then, at
\* any depth, the working directory moves to the file's directory
Prologue ==
    /\ Running("prologue")
    /\ LET line  == ReadLine(Top.file, 0)
           shell == DetectShell(line)
           dir   == Pushd(cwd, Top.name)
       IN  IF Top.depth = 0 /\ shell = NoMatch
           THEN /\ Terminate(UNCAUGHT, "AttributeError", <<>>)
                /\ UNCHANGED <<stack, out, cwd>>
           ELSE IF Top.depth = 0 /\ shell \notin SUPPORTED_SHELLS
           THEN /\ Terminate(UNSUPPORTED_SHELL, "", <<shell>>)
                /\ UNCHANGED <<stack, out, cwd>>
           ELSE IF dir = NoEnt
           THEN /\ Terminate(UNCAUGHT, "OSError", <<>>)
                /\ out' = IF Top.depth = 0 THEN Append(out, line) ELSE out
                /\ UNCHANGED <<stack, cwd>>
           ELSE /\ out' = IF Top.depth = 0 THEN Append(out, line) ELSE out
                /\ cwd' = dir
                /\ stack' = SetTop([Top EXCEPT
                                !.pos = IF Top.depth = 0 THEN 1 ELSE 0,
                                !.line_number = IF Top.depth = 0 THEN 1 ELSE 0,
                                !.saved_cwd = SavedCwd(cwd, Top.name),
                                !.pc = "scan"])
                /\ UNCHANGED <<pc, code, exc, report, tmp>>
    /\ UNCHANGED <<fs, ofs, env, args, opened>>

\* the line the innermost call reads next
Line == ReadLine(Top.file, Top.pos)

\* a scan that writes the directive line too
IgnoredOutputBoth(directive, next) == << directive, next >>

\* what the scan writes for a directive line and the line after it: the
\* directive line is read over, the line after it is written
IgnoredOutput(directive, next) == << next >>

\* a check that lets the end of the file pass
MisusedUnlessAtEnd(next) == next # <<>> /\ ~SOURCE_CMD_PATTERN(next)

\* the line after a directive is no source command
Misused(next) == ~SOURCE_CMD_PATTERN(next)

\* input_fd.readline() returns '': the loop ends, the popd runs and the call
\* returns to the statement after it, line_number += 1 of the caller's loop,
\* or to the top level
EndOfFile ==
    /\ Running("scan")
    /\ Line = <<>>
    /\ cwd' = Popd(cwd, Top.saved_cwd)
    /\ IF Len(stack) = 1
       THEN /\ stack' = <<>>
            /\ pc' = "finish"
       ELSE /\ stack' = [SubSeq(stack, 1, Len(stack) - 1)
                           EXCEPT ![Len(stack) - 1].line_number = @ + 1]
            /\ pc' = pc
    /\ UNCHANGED <<fs, ofs, env, args, out, tmp, code, exc, report, opened>>

\* a scan that reads the directive line only, and scans the line after it
\* like any other
IgnoreLineRescans ==
    /\ Running("scan")
    /\ Line # <<>>
    /\ SHLDIGNORE_COMMENT_PATTERN(Line)
    /\ LET next == ReadLine(Top.file, Top.pos + 1)
       IN  IF Misused(next)
           THEN /\ Terminate(IMPROPER_USE_OF_SHLDIGNORE, "",
                             <<Top.name, Top.line_number>>)
                /\ UNCHANGED <<stack, out>>
           ELSE /\ out' = out \o IgnoredOutput(Line, next)
                /\ stack' = SetTop([Top EXCEPT !.pos = @ + 1,
                                               !.line_number = @ + 1])
                /\ UNCHANGED <<pc, code, exc, report, tmp>>
    /\ UNCHANGED <<fs, ofs, env, args, cwd, opened>>

\* a #shldignore line: the next line is read; it must be a source command,
\* and is written as it is
IgnoreLine ==
    /\ Running("scan")
    /\ Line # <<>>
    /\ SHLDIGNORE_COMMENT_PATTERN(Line)
    /\ LET next == ReadLine(Top.file, Top.pos + 1)
       IN  IF Misused(next)
           THEN /\ Terminate(IMPROPER_USE_OF_SHLDIGNORE, "",
                             <<Top.name, Top.line_number>>)
                /\ UNCHANGED <<stack, out>>
           ELSE /\ out' = out \o IgnoredOutput(Line, next)
                /\ stack' = SetTop([Top EXCEPT !.pos = @ + 2,
                                               !.line_number = @ + 2])
                /\ UNCHANGED <<pc, code, exc, report, tmp>>
    /\ UNCHANGED <<fs, ofs, env, args, cwd, opened>>

\* a scan that includes each file once: a source command naming a file that
\* has been opened before is read over
SourceLineOnce ==
    /\ Running("scan")
    /\ Line # <<>>
    /\ ~SHLDIGNORE_COMMENT_PATTERN(Line)
    /\ SOURCE_CMD_PATTERN(Line)
    /\ LET words == ShlexSplit(Line, 1)
       IN  IF Len(words) < 2
           THEN /\ Terminate(UNCAUGHT, "IndexError", <<>>)
                /\ UNCHANGED stack
           ELSE IF \E i \in 1..Len(opened) :
                       opened[i].place = LookupFile(cwd, words[2])
           THEN /\ stack' = SetTop([Top EXCEPT !.pos = @ + 1,
                                               !.line_number = @ + 1])
                /\ UNCHANGED <<pc, code, exc, report, tmp>>
           ELSE IF Len(stack) >= RecursionLimit
           THEN /\ Terminate(UNCAUGHT, "RuntimeError", <<>>)
                /\ UNCHANGED stack
           ELSE /\ stack' = Append(SetTop([Top EXCEPT !.pos = @ + 1]),
                                   Call(words[2], Top.depth + 1))
                /\ UNCHANGED <<pc, code, exc, report, tmp>>
    /\ UNCHANGED <<fs, ofs, env, args, cwd, out, opened>>

\* a scan that stops expanding at the deepest call the interpreter allows:
\* the source command is read over
SourceLineDepthCapped ==
    /\ Running("scan")
    /\ Line # <<>>
    /\ ~SHLDIGNORE_COMMENT_PATTERN(Line)
    /\ SOURCE_CMD_PATTERN(Line)
    /\ LET words == ShlexSplit(Line, 1)
       IN  IF Len(words) < 2
           THEN /\ Terminate(UNCAUGHT, "IndexError", <<>>)
                /\ UNCHANGED stack
           ELSE IF Len(stack) >= RecursionLimit
           THEN /\ stack' = SetTop([Top EXCEPT !.pos = @ + 1,
                                               !.line_number = @ + 1])
                /\ UNCHANGED <<pc, code, exc, report, tmp>>
           ELSE /\ stack' = Append(SetTop([Top EXCEPT !.pos = @ + 1]),
                                   Call(words[2], Top.depth + 1))
                /\ UNCHANGED <<pc, code, exc, report, tmp>>
    /\ UNCHANGED <<fs, ofs, env, args, cwd, out, opened>>

\* a source command: process_file(shlex.split(line)[1], output_fd, depth + 1)
SourceLine ==
    /\ Running("scan")
    /\ Line # <<>>
    /\ ~SHLDIGNORE_COMMENT_PATTERN(Line)
    /\ SOURCE_CMD_PATTERN(Line)
    /\ LET words == ShlexSplit(Line, 1)
       IN  IF Len(words) < 2
           THEN /\ Terminate(UNCAUGHT, "IndexError", <<>>)
                /\ UNCHANGED stack
           ELSE IF Len(stack) >= RecursionLimit
           THEN /\ Terminate(UNCAUGHT, "RuntimeError", <<>>)
                /\ UNCHANGED stack
           ELSE /\ stack' = Append(SetTop([Top EXCEPT !.pos = @ + 1]),
                                   Call(words[2], Top.depth + 1))
                /\ UNCHANGED <<pc, code, exc, report, tmp>>
    /\ UNCHANGED <<fs, ofs, env, args, cwd, out, opened>>

\* any other line is written as it is
OrdinaryLine ==
    /\ Running("scan")
    /\ Line # <<>>
    /\ ~SHLDIGNORE_COMMENT_PATTERN(Line)
    /\ ~SOURCE_CMD_PATTERN(Line)
    /\ out' = Append(out, Line)
    /\ stack' = SetTop([Top EXCEPT !.pos = @ + 1, !.line_number = @ + 1])
    /\ UNCHANGED <<fs, ofs, env, args, cwd, pc, tmp, code, exc, report,
                   opened>>

(***************************************************************************)
(* The script's top level, after process_file has returned                 *)
(***************************************************************************)

\* a rename that is left out
RenamedNot(files, place, lines) == files

\* the files at output paths after os.rename(output_fd.name, output_filename)
Renamed(files, place, lines) == (place :> lines) @@ files

\* with an output file: the temporary file is closed and renamed to it; then
\* the interpreter ends with status 0
Finish ==
    /\ pc = "finish"
    /\ IF Len(args.filenames) = 2
       THEN LET place == LookupFile(cwd, args.filenames[2])
            IN  IF place = NoEnt
                THEN /\ Terminate(UNCAUGHT, "OSError", <<>>)
                     /\ UNCHANGED ofs
                ELSE /\ ofs' = Renamed(ofs, place, out)
                     /\ tmp' = cleanup("renamed")
                     /\ pc' = "done"
                     /\ UNCHANGED <<code, exc, report>>
       ELSE /\ pc' = "done"
            /\ UNCHANGED <<ofs, tmp, code, exc, report>>
    /\ UNCHANGED <<fs, env, args, cwd, stack, out, opened>>

\* os.rename raises OSError (the temporary directory is on another file
\* system than the output path, say)
RenameFails ==
    /\ pc = "finish"
    /\ Len(args.filenames) = 2
    /\ Terminate(UNCAUGHT, "OSError", <<>>)
    /\ UNCHANGED <<fs, ofs, env, args, cwd, stack, out, opened>>

Next ==
    \/ Preflight
    \/ OpenFile
    \/ Prologue
    \/ EndOfFile
    \/ IgnoreLine
    \/ SourceLine
    \/ OrdinaryLine
    \/ Finish
    \/ RenameFails

Spec == Init /\ [][Next]_vars

(***************************************************************************)
(* What is checked                                                         *)
(***************************************************************************)

\* the place of the top-level script
TopScript == LookupFile(env.cwd0, args.filenames[1])

\* the checks before process_file have passed
Expanding == pc \in {"expand", "finish", "done"} \/ (pc = "exit" /\ Len(opened) > 0)

IsPrefix(a, b) == Len(a) <= Len(b) /\ a = SubSeq(b, 1, Len(a))

Fail == <<<<"Fail">>>>

\* The lines i.. of the file at place with every inclusion line replaced, by
\* hand, by the pasted text of the file it names, the name taken from the
\* directory of the file that holds the line; Fail when a line is a
\* directive, when an inclusion names no file that exists, or when the
\* inclusions nest deeper than `fuel`.
RECURSIVE Paste(_, _, _)
Paste(place, i, fuel) ==
    IF i > Len(fs[place]) THEN <<>>
    ELSE LET l     == fs[place][i]
             rest  == Paste(place, i + 1, fuel)
             words == ShlexSplit(l, 1)
             file  == IF Len(words) >= 2
                      THEN LookupFile(Parent(place), words[2])
                      ELSE NoEnt
             sub   == IF fuel > 0 /\ file \in DOMAIN fs
                      THEN Paste(file, 1, fuel - 1)
                      ELSE Fail
         IN  IF rest = Fail \/ SHLDIGNORE_COMMENT_PATTERN(l) THEN Fail
             ELSE IF ~SOURCE_CMD_PATTERN(l) THEN <<l>> \o rest
             ELSE IF sub = Fail THEN Fail
             ELSE sub \o rest

\* the top-level script has a supported interpreter line
SupportedTop ==
    /\ Len(args.filenames) >= 1
    /\ TopScript \in DOMAIN fs
    /\ Len(fs[TopScript]) >= 1
    /\ DetectShell(fs[TopScript][1]) \in SUPPORTED_SHELLS

Pasted == Paste(TopScript, 2, RecursionLimit - 1)

\* C1: for a top-level script with a supported interpreter line, no directive
\* and every included file there to open (the inclusions nesting no deeper
\* than the interpreter allows), the output grows as a prefix of the
\* interpreter line followed by the script with every inclusion pasted in
\* place by hand, depth first; it is exactly that when process_file has
\* returned, and the run ends early on nothing but a failing rename.
C1_DepthFirstPaste ==
    LET pasted   == Pasted
        expected == <<fs[TopScript][1]>> \o pasted
    IN  (Expanding /\ SupportedTop /\ pasted # Fail) =>
            /\ IsPrefix(out, expected)
            /\ pc \in {"finish", "done"} => out = expected
            /\ pc = "exit" => (exc = "OSError" /\ out = expected)

\* a run that has returned from inclusions three deep, with lines of the
\* including files before and after them
C1_Witness ==
    /\ pc = "done"
    /\ SupportedTop
    /\ Pasted # Fail
    /\ \E i \in 1..Len(opened) : opened[i].depth = 3
    /\ \E i \in 1..Len(opened) : opened[i].name = <<"/", "l">>
    /\ Len(out) >= 7
    /\ out[Len(out)] = LnX

\* no line after the interpreter line is a directive or an inclusion
PlainTop ==
    \A i \in 2..Len(fs[TopScript]) :
        /\ ~SHLDIGNORE_COMMENT_PATTERN(fs[TopScript][i])
        /\ ~SOURCE_CMD_PATTERN(fs[TopScript][i])

\* the place the output path names from the working directory at the start
OutputPlace == LookupFile(env.cwd0, args.filenames[2])

\* C2: for a top-level script with a supported interpreter line and no
\* inclusion and no directive after it, the output is the input, line for
\* line: what is written never leaves the input's prefixes, the whole input
\* is written when process_file has returned, the output file holds exactly
\* the input when the run is done, and only a failing rename ends the run
\* early.
C2_PassThrough ==
    (Expanding /\ SupportedTop /\ PlainTop) =>
        /\ IsPrefix(out, fs[TopScript])
        /\ pc \in {"finish", "done"} => out = fs[TopScript]
        /\ (pc = "done" /\ Len(args.filenames) = 2) =>
               (OutputPlace \in DOMAIN ofs /\ ofs[OutputPlace] = fs[TopScript])
        /\ pc = "exit" => (exc = "OSError" /\ out = fs[TopScript])

\* a script of an interpreter line and two different ordinary lines has been
\* written over an output file that held something else
C2_Witness ==
    /\ pc = "done"
    /\ SupportedTop
    /\ PlainTop
    /\ Len(fs[TopScript]) = 3
    /\ fs[TopScript][2] # fs[TopScript][3]
    /\ Len(args.filenames) = 2
    /\ env.ofs0 # <<>>
    /\ ofs[OutputPlace] = fs[TopScript]

\* the innermost call is about to read a directive line in its scan
AtDirective ==
    /\ Running("scan")
    /\ Line # <<>>
    /\ SHLDIGNORE_COMMENT_PATTERN(Line)

\* the line after the one the innermost call reads next
LineAfter == ReadLine(Top.file, Top.pos + 1)

\* C3, as the specification states it: the scan writes the directive line and
\* then the inclusion line after it, both unchanged.
C3_DirectiveAndInclusionWritten ==
    [][ (AtDirective /\ SOURCE_CMD_PATTERN(LineAfter))
            => out' = out \o << Line, LineAfter >> ]_vars

\* C3, amended: the scan writes the inclusion line that follows a directive
\* unchanged and does not write the directive line itself.
C3_OnlyInclusionWritten ==
    [][ (AtDirective /\ SOURCE_CMD_PATTERN(LineAfter))
            => out' = out \o << LineAfter >> ]_vars

\* a directive and the inclusion after it have been read, and the last line
\* written is that inclusion line
C3_Witness ==
    /\ Running("scan")
    /\ Top.pos >= 2
    /\ SHLDIGNORE_COMMENT_PATTERN(fs[Top.file][Top.pos - 1])
    /\ SOURCE_CMD_PATTERN(fs[Top.file][Top.pos])
    /\ Len(out) > Top.mark
    /\ out[Len(out)] = fs[Top.file][Top.pos]
    /\ \A i \in 1..Len(out) : ~SHLDIGNORE_COMMENT_PATTERN(out[i])

\* the inclusion statement that made the open e stands right after a line
\* which the scan of its file read as a directive: the scan of the top-level
\* script starts at its second line, any other at the first
AfterDirective(e) ==
    /\ e.by # None
    /\ e.at - 1 >= (IF e.depth = 1 THEN 2 ELSE 1)
    /\ SHLDIGNORE_COMMENT_PATTERN(fs[e.by][e.at - 1])

\* C4: in every file, at every depth, an inclusion line that follows a
\* directive is not expanded: no open is ever made for it, and the step that
\* reads the directive opens nothing, calls nothing, ends nothing, writes
\* that inclusion line once, as it is, and moves the scan past it.
C4_IgnoredNeverExpanded ==
    /\ [](\A i \in 1..Len(opened) : ~AfterDirective(opened[i]))
    /\ [][ (AtDirective /\ SOURCE_CMD_PATTERN(LineAfter)) =>
              /\ opened' = opened
              /\ Len(stack') = Len(stack)
              /\ pc' = pc
              /\ out' = out \o << LineAfter >>
              /\ stack'[Len(stack)].pos = Top.pos + 2
              /\ stack'[Len(stack)].pc = "scan" ]_vars

\* a run is done in which an included file held a directive and, after it, an
\* inclusion of a file that does not exist: the line is in the output and no
\* open was tried for it
C4_Witness ==
    /\ pc = "done"
    /\ \E i \in 1..Len(opened) :
          /\ opened[i].depth = 1
          /\ \E j \in 2..Len(fs[opened[i].place]) :
                /\ SHLDIGNORE_COMMENT_PATTERN(fs[opened[i].place][j - 1])
                /\ fs[opened[i].place][j] = LnDotQ
    /\ \E k \in 1..Len(out) : out[k] = LnDotQ
    /\ \A i \in 1..Len(opened) : opened[i].name # <<"q">>

\* C5: in every file, at every depth, when the line after a directive is not
\* a source command (the end of the file included), the run ends there with
\* IMPROPER_USE_OF_SHLDIGNORE: that line is not written, nothing is opened or
\* called, and after the exit no line of any file is read or written.
C5_MisuseAborts ==
    [][ /\ (AtDirective /\ ~SOURCE_CMD_PATTERN(LineAfter)) =>
              /\ pc' = "exit"
              /\ code' = IMPROPER_USE_OF_SHLDIGNORE
              /\ exc' = ""
              /\ out' = out
              /\ stack' = stack
              /\ opened' = opened
        /\ pc = "exit" => UNCHANGED <<pc, code, out, stack, opened, cwd>> ]_vars

\* the run has ended with IMPROPER_USE_OF_SHLDIGNORE in an included file whose
\* last line is the directive
C5_Witness ==
    /\ pc = "exit"
    /\ code = IMPROPER_USE_OF_SHLDIGNORE
    /\ Len(stack) >= 2
    /\ Top.pos + 1 = Len(fs[Top.file])
    /\ SHLDIGNORE_COMMENT_PATTERN(fs[Top.file][Top.pos + 1])

\* the call at depth 0 has opened the script and is past its first line
FirstLineJudged ==
    /\ Len(opened) >= 1
    /\ opened[1].place \in DOMAIN fs
    /\ ~(pc = "expand" /\ Len(stack) = 1 /\ stack[1].pc = "prologue")

\* C6: whatever the first line of the top-level script is, either its last
\* name is a supported shell and the line is the first line of the output, or
\* the run has ended with UNSUPPORTED_SHELL and nothing written.
C6_SupportedOrRejected ==
    FirstLineJudged =>
        LET first == ReadLine(TopScript, 0)
        IN  \/ /\ DetectShell(first) \in SUPPORTED_SHELLS
               /\ Len(out) >= 1
               /\ out[1] = first
            \/ /\ pc = "exit"
               /\ code = UNSUPPORTED_SHELL
               /\ exc = ""
               /\ out = <<>>

\* C7: every open made for an inclusion statement that gives a relative path
\* is of the place that path names from the directory of the file holding
\* the statement, at any depth and wherever earlier inclusions of that file
\* led.
C7_RelativeToIncludingFile ==
    \A i \in 1..Len(opened) :
        (opened[i].by # None /\ ~IsAbs(opened[i].name)) =>
            opened[i].place = LookupFile(Parent(opened[i].by), opened[i].name)

\* a file two deep has been opened by a relative name, from a file that had
\* included a file of another directory before; the place is not the one the
\* name has from the top-level script's directory or from the directory the
\* process started in
C7_Witness ==
    \E i, j \in 1..Len(opened) :
        /\ i < j
        /\ opened[j].depth = 2
        /\ opened[i].by = opened[j].by
        /\ opened[i].at < opened[j].at
        /\ opened[i].place \in DOMAIN fs
        /\ Parent(opened[i].place) # Parent(opened[j].by)
        /\ ~IsAbs(opened[j].name)
        /\ opened[j].place \in DOMAIN fs
        /\ opened[j].place # LookupFile(Parent(TopScript), opened[j].name)
        /\ opened[j].place # LookupFile(env.cwd0, opened[j].name)

\* the inclusions a call at depth d may still nest
Fuel(d) == RecursionLimit - 1 - d

\* the innermost call has read its file to the end
AtEnd == Running("scan") /\ Line = <<>>

\* what the innermost call has written, the calls it made included
Written == SubSeq(out, Top.mark + 1, Len(out))

\* C8: an inclusion statement that gives an absolute path opens the place of
\* that path, whatever the working directory and the including file are, and
\* when the call made for it has read its file to the end, what was written
\* since the call is the pasted text of that file.
C8_AbsoluteInclusion ==
    /\ \A i \in 1..Len(opened) :
          (opened[i].by # None /\ IsAbs(opened[i].name)) =>
              opened[i].place = LookupFile(<<>>, opened[i].name)
    /\ LET pasted == Paste(Top.file, 1, Fuel(Top.depth))
       IN  (AtEnd /\ Top.depth > 0 /\ IsAbs(Top.name) /\ pasted # Fail) =>
               Written = pasted

\* /l, included by its absolute path from a file of /a/b, has been read to
\* its end, the file it includes too
C8_Witness ==
    /\ AtEnd
    /\ Top.depth = 2
    /\ IsAbs(Top.name)
    /\ Parent(stack[Len(stack) - 1].file) = <<dA, dB>>
    /\ cwd = <<>>
    /\ Len(Written) = 2
    /\ Written = Paste(Top.file, 1, Fuel(Top.depth))

\* the inclusion statements of the lines i.. of the file at place, and of the
\* files they include, that name the file at p; a directive's line and the
\* line after it are passed over
RECURSIVE Sites(_, _, _, _)
Sites(place, i, fuel, p) ==
    IF i > Len(fs[place]) THEN 0
    ELSE LET l     == fs[place][i]
             words == ShlexSplit(l, 1)
             file  == IF Len(words) >= 2
                      THEN LookupFile(Parent(place), words[2])
                      ELSE NoEnt
         IN  IF SHLDIGNORE_COMMENT_PATTERN(l) THEN Sites(place, i + 2, fuel, p)
             ELSE IF ~SOURCE_CMD_PATTERN(l) THEN Sites(place, i + 1, fuel, p)
             ELSE (IF file = p THEN 1 ELSE 0)
                  + (IF fuel > 0 /\ file \in DOMAIN fs
                     THEN Sites(file, 1, fuel - 1, p) ELSE 0)
                  + Sites(place, i + 1, fuel, p)

Opens(p) == Cardinality({ i \in 1..Len(opened) : opened[i].place = p })

\* C9: every call made for an inclusion writes the whole pasted text of its
\* file, whether or not the file was included before; and when process_file
\* has returned, each file has been opened once for every inclusion statement
\* that names it and is not under a directive.
C9_EachInclusionExpanded ==
    /\ LET pasted == Paste(Top.file, 1, Fuel(Top.depth))
       IN  (AtEnd /\ Top.depth > 0 /\ pasted # Fail) => Written = pasted
    /\ pc \in {"finish", "done"} =>
          \A p \in DOMAIN fs :
              Opens(p) = (IF p = TopScript THEN 1 ELSE 0)
                         + Sites(TopScript, 2, Fuel(0), p)

\* a run is done in which one file was included from two files, and its line
\* is twice in the output
C9_Witness ==
    /\ pc = "done"
    /\ \E i, j \in 1..Len(opened) :
          /\ i < j
          /\ opened[i].place = opened[j].place
          /\ opened[i].by # opened[j].by
          /\ Cardinality({ k \in 1..Len(out) :
                             out[k] = fs[opened[i].place][1] }) = 2

\* C10: the files at output paths change in one step only, the rename after
\* the top-level call of process_file has returned, which puts the output at
\* the output path; until the run is done they are as they were, and a run
\* that ends on an exit or an uncaught exception leaves them so and leaves no
\* temporary file.
C10_OutputOnlyByRename ==
    /\ [](pc # "done" => ofs = env.ofs0)
    /\ [](pc = "exit" => tmp \in {"none", "removed"})
    /\ [](pc = "exit" /\ Len(opened) > 0 /\ Len(args.filenames) = 2
             => tmp = "removed")
    /\ [][ ofs' # ofs =>
              /\ pc = "finish"
              /\ stack = <<>>
              /\ pc' = "done"
              /\ ofs' = (OutputPlace :> out) @@ ofs ]_vars

\* a run writing to a temporary file, for an output path that holds a file,
\* has ended on a failing open two inclusions deep with lines written: the
\* file at the output path is the old one and the temporary file is gone
C10_Witness ==
    /\ pc = "exit"
    /\ code = OPEN_FAILED
    /\ Len(stack) = 3
    /\ Len(out) >= 2
    /\ env.ofs0 # <<>>
    /\ ofs = env.ofs0
    /\ tmp = "removed"

\* an output path is given and a file is at it when the run starts
OutputExists ==
    /\ Len(args.filenames) = 2
    /\ LookupFile(env.cwd0, args.filenames[2]) \in DOMAIN env.ofs0

\* the run has ended with `status` before any script was opened, any line
\* written or a temporary file made, the files at output paths as they were
RejectedWith(status) ==
    /\ pc = "exit"
    /\ code = status
    /\ exc = ""
    /\ opened = <<>>
    /\ out = <<>>
    /\ tmp = "none"
    /\ ofs = env.ofs0

\* C11: when a file is at the output path, then once the checks have run,
\* without -f the run has ended with FILE_EXISTS, writeable file or not, and
\* with -f and a file that is not writeable it has ended with
\* FILE_NOT_WRITEABLE; in both cases no script was opened, no temporary file
\* was made and the file is as it was.
C11_ExistingOutputChecked ==
    (OutputExists /\ pc # "start") =>
        /\ ~args.force => RejectedWith(FILE_EXISTS)
        /\ (args.force /\ ~env.destWritable) => RejectedWith(FILE_NOT_WRITEABLE)

\* without -f, a file that is not writeable at the output path and a script
\* name that names no file: the run has ended with FILE_EXISTS
C11_Witness ==
    /\ OutputExists
    /\ ~args.force
    /\ ~env.destWritable
    /\ TopScript \notin DOMAIN fs
    /\ RejectedWith(FILE_EXISTS)

\* C12: an open that fails, of the top-level script or of a file an
\* inclusion names at any depth, is the last thing the run does: it ends
\* with OPEN_FAILED and the name of the file, every call is where it was
\* when the inclusion line was read, nothing has been written since, and no
\* step follows the exit.
C12_OpenFailureAborts ==
    /\ [](\A i \in 1..Len(opened) :
            opened[i].place \notin DOMAIN fs =>
                /\ i = Len(opened)
                /\ pc = "exit"
                /\ code = OPEN_FAILED
                /\ exc = ""
                /\ report = <<opened[i].name>>
                /\ Len(stack) = opened[i].depth + 1
                /\ Top.pc = "open"
                /\ Len(out) = Top.mark
                /\ \A d \in 1..(Len(stack) - 1) :
                      /\ stack[d].pc = "scan"
                      /\ SOURCE_CMD_PATTERN(fs[stack[d].file][stack[d].pos])
                      /\ ShlexSplit(fs[stack[d].file][stack[d].pos], 1)[2]
                            = stack[d + 1].name)
    /\ [][pc # "exit"]_vars

\* an open has failed two inclusions deep, after lines were written, while
\* the top-level script has lines left after its inclusion line
C12_Witness ==
    /\ pc = "exit"
    /\ code = OPEN_FAILED
    /\ Len(opened) = 3
    /\ opened[3].depth = 2
    /\ opened[3].place \notin DOMAIN fs
    /\ Len(out) >= 2
    /\ stack[1].pos < Len(fs[stack[1].file])

\* the run has ended on a directive that no source command follows
MisuseReported ==
    pc = "exit" /\ code = IMPROPER_USE_OF_SHLDIGNORE /\ exc = ""

\* C13: when a run ends on a misused directive, the message names the file
\* of the innermost call and the line number of the directive in that file,
\* counted from 1: one more than the lines the call had read before it.
C13_ReportsDirectiveLine ==
    MisuseReported =>
        /\ report[1] = Top.name
        /\ report[2] = Top.pos + 1

\* C14: a call that returns leaves the working directory as it was when the
\* call was made, at any depth; a call has saved a directory when and only
\* when the name of its file has a directory part, and it saved the one it
\* was entered in; each call was entered in the directory of its caller's
\* file; and while a call scans, the working directory is the directory of
\* its file.  After the top-level call it is the directory the process
\* started in.
C14_DirectoryStack ==
    /\ [][ (Running("scan") /\ Line = <<>>) => cwd' = Top.entered ]_vars
    /\ [](Running("scan") =>
            /\ cwd = Parent(Top.file)
            /\ \A d \in 1..Len(stack) :
                  /\ stack[d].pc = "scan"
                  /\ (stack[d].saved_cwd = None)
                        <=> (Len(Dirname(stack[d].name)) = 0)
                  /\ stack[d].saved_cwd # None
                        => stack[d].saved_cwd = stack[d].entered
                  /\ stack[d].entered = IF d = 1 THEN env.cwd0
                                        ELSE Parent(stack[d - 1].file))
    /\ [](pc \in {"finish", "done"} => cwd = env.cwd0)

\* a call two deep, made from a file of one directory for a file of
\* another, has returned to its caller, whose file is not in the directory
\* the process started in
C14_Witness ==
    /\ Running("scan")
    /\ Len(stack) = 2
    /\ Len(opened) >= 3
    /\ opened[Len(opened)].depth = 2
    /\ opened[Len(opened)].place \in DOMAIN fs
    /\ Parent(opened[Len(opened)].place) # Parent(Top.file)
    /\ cwd = Parent(Top.file)
    /\ cwd # env.cwd0

\* a line that names an interpreter
IsInterpreterLine(l) == Len(l) >= 2 /\ l[1] = "#" /\ l[2] = "!"

\* the first line is checked at depth 0 only: a run that ends with
\* UNSUPPORTED_SHELL ends in the prologue of the top-level call, and the
\* prologue of a call at depth > 0 writes nothing and ends no run
ValidatedAtDepth0Only ==
    /\ [](pc = "exit" /\ code = UNSUPPORTED_SHELL /\ exc = "" =>
            Len(stack) = 1 /\ Top.depth = 0 /\ Top.pc = "prologue")
    /\ [][ (Running("prologue") /\ Top.depth > 0) =>
              (out' = out /\ pc' = "expand") ]_vars
    /\ [][ (Running("prologue") /\ Top.depth = 0 /\ pc' = "expand") =>
              /\ DetectShell(ReadLine(Top.file, 0)) \in SUPPORTED_SHELLS
              /\ out' = << ReadLine(Top.file, 0) >> ]_vars

\* C15 as stated: the first line is checked and echoed at depth 0 only, and
\* the interpreter line of a file opened at depth > 0 is not in the output.
C15_NoNestedInterpreterLine ==
    /\ ValidatedAtDepth0Only
    /\ [](\A i \in 1..Len(opened) :
            (/\ opened[i].depth > 0
             /\ opened[i].place \in DOMAIN fs
             /\ Len(fs[opened[i].place]) > 0
             /\ IsInterpreterLine(fs[opened[i].place][1])) =>
                \A k \in 1..Len(out) : out[k] # fs[opened[i].place][1])

\* C15, amended: the first line is checked and echoed at depth 0 only; a
\* call at depth > 0 scans the first line of its file like any other line,
\* and when the line is neither a directive nor a source command, an
\* interpreter line too, it is written to the output.
C15_NestedFirstLineScanned ==
    /\ ValidatedAtDepth0Only
    /\ [][ (/\ Running("scan")
            /\ Top.depth > 0
            /\ Top.pos = 0
            /\ Line # <<>>
            /\ ~SHLDIGNORE_COMMENT_PATTERN(Line)
            /\ ~SOURCE_CMD_PATTERN(Line)) =>
              (out' = Append(out, Line) /\ pc' = "expand") ]_vars

\* a run is done in which /l, whose first line names zsh, was included: the
\* line is in the output after the interpreter line of the top-level script
C15_Witness ==
    /\ pc = "done"
    /\ \E i \in 1..Len(opened) :
          /\ opened[i].depth > 0
          /\ opened[i].place \in DOMAIN fs
          /\ Len(fs[opened[i].place]) > 0
          /\ fs[opened[i].place][1] = LnZsh
    /\ \E k \in 2..Len(out) : out[k] = LnZsh
    /\ DetectShell(LnZsh) \notin SUPPORTED_SHELLS

\* C16: every line the scan takes for a source command has a second word,
\* the path, after the keyword, at the head of the loop and after a
\* directive alike; so no run ends on the IndexError of a missing word.
C16_InclusionNamesFile ==
    /\ (Running("scan") /\ Line # <<>>) =>
          /\ SOURCE_CMD_PATTERN(Line) => Len(ShlexSplit(Line, 1)) >= 2
          /\ (SHLDIGNORE_COMMENT_PATTERN(Line)
                /\ ~Misused(ReadLine(Top.file, Top.pos + 1))) =>
                Len(ShlexSplit(ReadLine(Top.file, Top.pos + 1), 1)) >= 2
    /\ exc # "IndexError"

\* the active calls i and j have the same file open, opened for an
\* inclusion: the calls from i to j are a cycle of inclusions
CycleAt(i, j) ==
    /\ i < j
    /\ j <= Len(stack)
    /\ stack[i].depth > 0
    /\ stack[i].file # None
    /\ stack[i].file = stack[j].file

Cycling == \E i, j \in 1..Len(stack) : CycleAt(i, j)

\* C17: nothing ends a cycle of inclusions.  Once a file is open in two
\* active calls, neither of the two calls ever returns (calls made deeper
\* for files outside the cycle may), and the top-level call is never done;
\* the run ends only when the interpreter refuses a deeper call, on its
\* RuntimeError and with none of the expander's exit conditions.
C17_NoCycleGuard ==
    /\ [][ \A i, j \in 1..Len(stack) : CycleAt(i, j) => CycleAt(i, j)' ]_vars
    /\ [](Cycling => pc \in {"expand", "exit"})
    /\ [](Cycling /\ pc = "exit" =>
            /\ exc = "RuntimeError"
            /\ Len(stack) = RecursionLimit
            /\ ofs = env.ofs0)

\* the run has ended on the RuntimeError in the cycle of the top-level
\* script and /a/b/n, each including the other
C17_Witness ==
    /\ pc = "exit"
    /\ exc = "RuntimeError"
    /\ Len(stack) >= 4
    /\ stack[1].file = TopPlace
    /\ stack[2].file = NPlace
    /\ stack[3].file = TopPlace
    /\ stack[4].file = NPlace
    /\ Cycling

\* the exit conditions of the expander
ExitConditions == OPEN_FAILED .. DIRECTORY_NOT_WRITEABLE

\* C18: a run that is in no cycle of inclusions ends in one of two ways, the
\* top-level call done with every call made for an inclusion returned, or
\* an exit with one of the exit conditions and no uncaught exception; and
\* while a call made for an inclusion is active, every call below it stands
\* at its inclusion line and reads nothing.
C18_AcyclicRunEnds ==
    /\ (pc = "exit" /\ ~Cycling) => (exc = "" /\ code \in ExitConditions)
    /\ pc \in {"finish", "done"} => stack = <<>>
    /\ \A d \in 1..(Len(stack) - 1) :
          /\ stack[d].pc = "scan"
          /\ stack[d].pos >= 1
          /\ SOURCE_CMD_PATTERN(fs[stack[d].file][stack[d].pos])
          /\ stack[d + 1].depth = stack[d].depth + 1

\* an output path is given and no file is at it when the run starts
OutputNew ==
    /\ Len(args.filenames) = 2
    /\ LookupFile(env.cwd0, args.filenames[2]) \notin DOMAIN env.ofs0

\* C19: with an output path that no file is at, a run ends with
\* DIRECTORY_DOES_NOT_EXIST only when the path leads through a directory
\* that does not exist; a bare file name, whose directory is the working
\* directory, is not rejected so.
C19_MissingDirectoryOnly ==
    (OutputNew /\ pc = "exit" /\ code = DIRECTORY_DOES_NOT_EXIST /\ exc = "") =>
        LookupFile(env.cwd0, args.filenames[2]) = NoEnt

====
